---------------------------- MODULE Spec2Model ----------------------------
(***************************************************************************)
(* quarkvm: the prefix registry (chain package) and the block engine (vm   *)
(* package).                                                               *)
(*                                                                         *)
(* Several state machines share this module:                               *)
(*   SpecReg    the prefix store driven as TestClaimTx drives it: an       *)
(*              expiry sweep between consecutive transactions, then the    *)
(*              final sweep and PruneNext;                                 *)
(*   SpecVM     the VM: Initialize, Submit, BuildBlock, SetPreference and  *)
(*              the Verified / Accepted / Rejected callbacks reached       *)
(*              through Block.Verify / Accept / Reject;                    *)
(*   SpecNoPreference, SpecIdle                                            *)
(*              the VM without SetPreference, and the VM with a quiet      *)
(*              period at the end of the run;                              *)
(*   SpecBuild  BuildBlock's scratch snapshots over the prefix store;      *)
(*   SpecLock, SpecLockFair                                                *)
(*              the methods of the VM as steps of two threads around vm.l; *)
(*   SpecRecents, SpecWindow, SpecSelect                                   *)
(*              the computations of Recents, readWindow and BuildBlock's   *)
(*              selection loop, each applied once to drawn arguments.      *)
(* ClaimTx.Execute, the prefix store, the sweeper, chain.Block and the    *)
(* mempool are modelled from their description and from how their callers  *)
(* and tests use them.                                                     *)
(***************************************************************************)
EXTENDS Integers, Sequences, FiniteSets, TLC

VARIABLES
    \* ---- prefix registry (SpecReg) ----
    db,         \* the key-value store: info (0x00), expiry index (0x01), pruning backlog
    driver,     \* "test": the order of TestClaimTx; "block": the order of block acceptance
    rpc,        \* position of the test: "tx", "prune", "done", "crashed"
    prevTime,   \* tt[i-1].blockTime
    nTx,        \* i, transactions executed so far
    res,        \* outcome of the last Execute, with the entry it found
    nClaimed,   \* successful claims so far
    limit,      \* the limit given to PruneNext
    pruned,     \* what PruneNext returned
    built,      \* outcome of the last BuildBlock on the store (SpecBuild)
    \* ---- the VM (SpecVM) ----
    phase,          \* "new" before Initialize, then "running"; "crashed" after a panic
    blocks,         \* block id -> StatefulBlock, of every block parsed or built
    st,             \* block id -> choices.Status of the block (chain.Block.st)
    verifiedBlocks, \* vm.verifiedBlocks (its keys; the values are blocks[id])
    preferred,      \* vm.preferred
    lastAccepted,   \* vm.lastAccepted
    vmdb,           \* vm.db: last (0x03), blocks (0x02), state (committed executions)
    mempool,        \* vm.mempool
    toEngine,       \* messages waiting in the toEngine channel
    now,            \* time.Now().Unix()
    \* ---- threads and the mutex (SpecLock) ----
    thr,            \* thread -> the call it is in and its next step
    mutex,          \* holder of vm.l, or NoThread
    \* ---- one call of a function on drawn arguments ----
    call            \* the function, its arguments and, once applied, its result

vmVars == <<phase, blocks, st, verifiedBlocks, preferred, lastAccepted, vmdb,
            mempool, toEngine, now>>

lockVars == <<thr, mutex>>

pureVars == <<call>>

regVars == <<db, driver, rpc, prevTime, nTx, res, nClaimed, limit, pruned,
             built>>

-----------------------------------------------------------------------------
(* Genesis parameters, scaled down.                                        *)

\* g.ExpiryTime
ExpiryTime == 4
\* chain.PrefixRenewalDiscount
PrefixRenewalDiscount == 2

(* Bounds of the registry model.                                           *)
MaxTime == 9
MaxTxs == 3
MaxLimit == 3

Senders == {"sender", "sender2"}

\* "a" and "foo" are ordinary prefixes; "pk" stands for the 33-byte prefix
\* bytes.Repeat('a', SECP256K1RPKLen), which is no sender's public key.
Prefixes == {"a", "foo", "pk"}
PrefixOrd(p) == CASE p = "a" -> 1 [] p = "pk" -> 2 [] OTHER -> 3
IsPublicKeyShaped(p) == p = "pk"

\* Units of a prefix: non-increasing in its length.
prefixUnits(p) == CASE p = "a" -> 2 [] OTHER -> 1

NoInfo == [owner |-> "", expiry |-> 0, units |-> 0]
NoRes == [kind |-> "", prefix |-> "", sender |-> "", blockTime |-> 0,
          err |-> "", before |-> NoInfo, after |-> NoInfo]

NoBuilt == [done |-> FALSE]

EmptyDB == [info |-> [p \in Prefixes |-> NoInfo], expiry |-> {}, pruning |-> {}]

\* (info, exists)
GetPrefixInfo(d, prefix) == [info |-> d.info[prefix], has |-> d.info[prefix] # NoInfo]

\* Writes the record and moves its expiry-index entry from lastExpiry.
PutPrefixInfo(d, prefix, i, lastExpiry) ==
    [d EXCEPT !.info[prefix] = i,
              !.expiry = (IF lastExpiry = 0 THEN @ ELSE @ \ {<<lastExpiry, prefix>>})
                         \cup {<<i.expiry, prefix>>}]

ExpireNextDropsBacklog(d, lastTime, currTime, removeData) ==
    LET hit == {k \in d.expiry : k[1] > lastTime /\ k[1] <= currTime}
    IN  [info    |-> [p \in Prefixes |->
                        IF removeData /\ (\E k \in hit : k[2] = p)
                        THEN NoInfo ELSE d.info[p]],
         expiry  |-> d.expiry \ hit,
         pruning |-> d.pruning]

\* Index entries with expiry in (lastTime, currTime] leave the index for the
\* pruning backlog; with removeData their records are deleted.
ExpireNext(d, lastTime, currTime, removeData) ==
    LET hit == {k \in d.expiry : k[1] > lastTime /\ k[1] <= currTime}
    IN  [info    |-> [p \in Prefixes |->
                        IF removeData /\ (\E k \in hit : k[2] = p)
                        THEN NoInfo ELSE d.info[p]],
         expiry  |-> d.expiry \ hit,
         pruning |-> d.pruning \cup hit]

KeyLess(j, k) == j[1] < k[1] \/ (j[1] = k[1] /\ PrefixOrd(j[2]) < PrefixOrd(k[2]))

\* Removes the first `lim` entries of the pruning backlog, in key order.
PruneNext(d, lim) ==
    LET gone == {k \in d.pruning :
                    Cardinality({j \in d.pruning : KeyLess(j, k)}) < lim}
    IN  [pruned |-> Cardinality(gone),
         db     |-> [d EXCEPT !.pruning = @ \ gone,
                              !.info = [p \in Prefixes |->
                                  IF \E k \in gone : k[2] = p /\ @[p].expiry = k[1]
                                  THEN NoInfo ELSE @[p]]]]

ClaimNoExpiryCheck(d, tx, blockTime) ==
    LET i == GetPrefixInfo(d, tx.prefix)
    IN  IF IsPublicKeyShaped(tx.prefix)
        THEN [err |-> "ErrPublicKeyMismatch", db |-> d]
        ELSE [err |-> "nil",
              db  |-> PutPrefixInfo(d, tx.prefix,
                        [owner |-> tx.sender, expiry |-> blockTime + ExpiryTime,
                         units |-> prefixUnits(tx.prefix)],
                        IF i.has THEN i.info.expiry ELSE 0)]

ClaimKeepsOwner(d, tx, blockTime) ==
    LET i == GetPrefixInfo(d, tx.prefix)
    IN  IF IsPublicKeyShaped(tx.prefix)
        THEN [err |-> "ErrPublicKeyMismatch", db |-> d]
        ELSE IF i.has /\ i.info.expiry > blockTime
        THEN [err |-> "ErrPrefixNotExpired", db |-> d]
        ELSE [err |-> "nil",
              db  |-> PutPrefixInfo(d, tx.prefix,
                        [owner |-> IF i.has THEN i.info.owner ELSE tx.sender,
                         expiry |-> IF i.has THEN i.info.expiry + ExpiryTime
                                    ELSE blockTime + ExpiryTime,
                         units |-> prefixUnits(tx.prefix)],
                        IF i.has THEN i.info.expiry ELSE 0)]

\* ClaimTx.Execute
ClaimTxExecute(d, tx, blockTime) ==
    LET i == GetPrefixInfo(d, tx.prefix)
    IN  IF IsPublicKeyShaped(tx.prefix)
        THEN [err |-> "ErrPublicKeyMismatch", db |-> d]
        ELSE IF i.has /\ i.info.expiry > blockTime
        THEN [err |-> "ErrPrefixNotExpired", db |-> d]
        ELSE [err |-> "nil",
              db  |-> PutPrefixInfo(d, tx.prefix,
                        [owner |-> tx.sender, expiry |-> blockTime + ExpiryTime,
                         units |-> prefixUnits(tx.prefix)],
                        IF i.has THEN i.info.expiry ELSE 0)]

addLifeShortens(d, prefix) ==
    LET i == GetPrefixInfo(d, prefix)
        prefixPenalty == prefixUnits(prefix) \div PrefixRenewalDiscount
    IN  IF ~i.has THEN [err |-> "ErrPrefixMissing", db |-> d]
        ELSE IF i.info.units = 0 \/ prefixUnits(prefix) = 0 \/ prefixPenalty = 0
        THEN [err |-> "panic", db |-> d]
        ELSE [err |-> "nil",
              db  |-> PutPrefixInfo(d, prefix,
                        [i.info EXCEPT !.expiry =
                            @ - ((((ExpiryTime \div i.info.units)
                                    \div prefixUnits(prefix)) \div prefixPenalty))],
                        i.info.expiry)]

\* addLife: a division by zero is a run-time panic, before anything is written.
addLife(d, prefix) ==
    LET i == GetPrefixInfo(d, prefix)
        prefixPenalty == prefixUnits(prefix) \div PrefixRenewalDiscount
    IN  IF ~i.has THEN [err |-> "ErrPrefixMissing", db |-> d]
        ELSE IF i.info.units = 0 \/ prefixUnits(prefix) = 0 \/ prefixPenalty = 0
        THEN [err |-> "panic", db |-> d]
        ELSE [err |-> "nil",
              db  |-> PutPrefixInfo(d, prefix,
                        [i.info EXCEPT !.expiry =
                            @ + ((((ExpiryTime \div i.info.units)
                                    \div prefixUnits(prefix)) \div prefixPenalty))],
                        i.info.expiry)]

\* LifelineTx.Execute
LifelineTxExecute(d, tx, blockTime) == addLife(d, tx.prefix)

Execute(d, tx, blockTime) ==
    IF tx.kind = "claim" THEN ClaimTxExecute(d, tx, blockTime)
    ELSE LifelineTxExecute(d, tx, blockTime)

-----------------------------------------------------------------------------
(* The test loop.                                                          *)

InitReg ==
    /\ db = EmptyDB
    /\ driver \in {"test", "block"}
    /\ rpc = "tx"
    /\ prevTime = 0
    /\ limit = 0
    /\ nTx = 0
    /\ res = NoRes
    /\ nClaimed = 0
    /\ pruned = 0
    /\ built = NoBuilt

\* One iteration of the loop over tt (tv = tt[i]):
\*   if i > 0 { ExpireNext(db, tt[i-1].blockTime, tv.blockTime, true) }
\*   err := tv.tx.Execute(g, db, uint64(tv.blockTime), ids.ID{})
\* res.before is the entry Execute found (after the sweep), res.after the one
\* it left.
TestStep ==
    /\ UNCHANGED <<vmVars, lockVars, pureVars>>
    /\ rpc = "tx"
    /\ driver = "test"
    /\ nTx < MaxTxs
    /\ \E kind \in {"claim", "lifeline"}, p \in Prefixes, s \in Senders,
          t \in 1..MaxTime :
          LET tv == [kind |-> kind, prefix |-> p, sender |-> s, blockTime |-> t]
              swept == IF nTx > 0 THEN ExpireNext(db, prevTime, t, TRUE) ELSE db
              r == Execute(swept, tv, t)
          IN  /\ t >= prevTime
              /\ db' = r.db
              /\ res' = [kind |-> kind, prefix |-> p, sender |-> s, blockTime |-> t,
                         err |-> r.err, before |-> swept.info[p],
                         after |-> r.db.info[p]]
              /\ rpc' = IF r.err = "panic" THEN "crashed" ELSE "tx"
              /\ nClaimed' = IF kind = "claim" /\ r.err = "nil"
                             THEN nClaimed + 1 ELSE nClaimed
              /\ prevTime' = t
    /\ nTx' = nTx + 1
    /\ UNCHANGED <<driver, limit, pruned, built>>

\* The same transactions in the order of block acceptance: the block's
\* transaction executes on the parent's state at the block's time, and
\* Accept then sweeps ExpireNext(parent.Tmstmp, block.Tmstmp, true).
BlockStep ==
    /\ UNCHANGED <<vmVars, lockVars, pureVars>>
    /\ rpc = "tx"
    /\ driver = "block"
    /\ nTx < MaxTxs
    /\ \E kind \in {"claim", "lifeline"}, p \in Prefixes, s \in Senders,
          t \in 1..MaxTime :
          LET tv == [kind |-> kind, prefix |-> p, sender |-> s, blockTime |-> t]
              r == Execute(db, tv, t)
          IN  /\ t >= prevTime
              /\ db' = IF r.err = "nil" THEN ExpireNext(r.db, prevTime, t, TRUE) ELSE db
              /\ res' = [kind |-> kind, prefix |-> p, sender |-> s, blockTime |-> t,
                         err |-> r.err, before |-> db.info[p],
                         after |-> r.db.info[p]]
              /\ rpc' = IF r.err = "panic" THEN "crashed" ELSE "tx"
              /\ nClaimed' = IF kind = "claim" /\ r.err = "nil"
                             THEN nClaimed + 1 ELSE nClaimed
              /\ prevTime' = IF r.err = "nil" THEN t ELSE prevTime
    /\ nTx' = nTx + 1
    /\ UNCHANGED <<driver, limit, pruned, built>>

\* ExpireNext(db, 0, ExpiryTime*10, true)
TestCleanup ==
    /\ UNCHANGED <<vmVars, lockVars, pureVars>>
    /\ rpc = "tx"
    /\ db' = ExpireNext(db, 0, ExpiryTime * 10, TRUE)
    /\ rpc' = "prune"
    /\ UNCHANGED <<driver, prevTime, nTx, res, nClaimed, limit, pruned, built>>

\* pruned, err := PruneNext(db, 100)
TestPrune ==
    /\ UNCHANGED <<vmVars, lockVars, pureVars>>
    /\ rpc = "prune"
    /\ \E l \in 1..MaxLimit :
          LET r == PruneNext(db, l)
          IN  /\ db' = r.db
              /\ pruned' = r.pruned
              /\ limit' = l
    /\ rpc' = "done"
    /\ UNCHANGED <<driver, prevTime, nTx, res, nClaimed, built>>

NextReg == TestStep \/ BlockStep \/ TestCleanup \/ TestPrune

-----------------------------------------------------------------------------
(* The VM.                                                                 *)

\* chain.MinDifficulty, chain.MinBlockCost
MinDifficulty == 1
MinBlockCost == 1
\* chain.LookbackWindow, chain.BlockTarget, chain.TargetTransactions
LookbackWindow == 2
BlockTarget == 1
TargetTransactions == 1
\* mempool.New(1024), scaled down
MempoolSize == 2
\* capacity of the toEngine channel
ToEngineCap == 1
\* Stands for 2^64 in the uint64 conversions; every other quantity of the
\* model stays far below it.
Two64 == 65536

(* Bounds of the VM model.                                                 *)
MaxBlocks == 2
MaxTx == 2
MaxNow == 3

\* ids.ID{}
EmptyID == 0
GenesisID == 1

\* Ids 2 and 3 are those of the blocks an earlier run may have accepted on
\* genesis; these are the ids of the blocks that reach the VM after Initialize.
BlockIDs == 4..(3 + MaxBlocks)

\* A transaction is identified by its content: a nonce, which fixes its
\* proof-of-work difficulty, and the block id it is anchored to.
Anchors == {GenesisID}
Transactions == [n : 1..MaxTx, blockID : Anchors]
TxDifficulty(tx) == MinDifficulty + tx.n - 1
TxOrd(tx) == tx.n * (MaxBlocks + 4) + tx.blockID

\* Go's integer division truncates toward zero.
GoDiv(a, b) == IF a >= 0 THEN a \div b ELSE -((-a) \div b)
\* uint64(x) of an int64 x
ToUint64(x) == IF x >= 0 THEN x ELSE Two64 + x

\* vm.getBlock succeeds on the verified blocks and on the stored ones.
Retrievable == verifiedBlocks \cup vmdb.blocks

\* vm.readWindow over the blocks of R: the ids visit is called on, in order,
\* and whether a parent lookup panicked. visit returns false at stopAt.
RECURSIVE walkWindowOnlyRecent(_, _, _, _, _)
walkWindowOnlyRecent(R, currTime, lastID, stopAt, curr) ==
    IF ~(currTime - blocks[curr].Tmstmp <= LookbackWindow)
    THEN [visited |-> <<>>, panic |-> FALSE]
    ELSE IF curr = stopAt \/ blocks[curr].Prnt = EmptyID
    THEN [visited |-> <<curr>>, panic |-> FALSE]
    ELSE IF blocks[curr].Prnt \notin R
    THEN [visited |-> <<curr>>, panic |-> TRUE]
    ELSE LET r == walkWindowOnlyRecent(R, currTime, lastID, stopAt, blocks[curr].Prnt)
         IN  [visited |-> <<curr>> \o r.visited, panic |-> r.panic]

RECURSIVE walkWindow(_, _, _, _, _)
walkWindow(R, currTime, lastID, stopAt, curr) ==
    IF ~(currTime - blocks[curr].Tmstmp <= LookbackWindow \/ curr = lastID)
    THEN [visited |-> <<>>, panic |-> FALSE]
    ELSE IF curr = stopAt \/ blocks[curr].Prnt = EmptyID
    THEN [visited |-> <<curr>>, panic |-> FALSE]
    ELSE IF blocks[curr].Prnt \notin R
    THEN [visited |-> <<curr>>, panic |-> TRUE]
    ELSE LET r == walkWindow(R, currTime, lastID, stopAt, blocks[curr].Prnt)
         IN  [visited |-> <<curr>> \o r.visited, panic |-> r.panic]

readWindow(R, currTime, lastID, stopAt) ==
    IF lastID \notin R THEN [visited |-> <<>>, panic |-> TRUE]
    ELSE walkWindow(R, currTime, lastID, stopAt, lastID)

\* vm.ValidBlockID(blockID): whether the window from the preferred block
\* holds blockID, and whether the walk panicked.
ValidBlockID(blockID) ==
    LET w == readWindow(Retrievable, now, preferred, blockID)
    IN  [panic |-> w.panic,
         valid |-> \E i \in DOMAIN w.visited : w.visited[i] = blockID]

RECURSIVE SumDifficulty(_)
SumDifficulty(ids) ==
    IF ids = <<>> THEN 0
    ELSE blocks[Head(ids)].Difficulty + SumDifficulty(Tail(ids))

\* vm.DifficultyEstimate(): totalDifficulty/totalBlocks + 1 over the window
\* from the preferred block at time.Now(), and whether the walk panicked.
DifficultyEstimate ==
    LET w == readWindow(Retrievable, now, preferred, EmptyID)
    IN  [panic |-> w.panic,
         estimate |-> IF w.visited = <<>> THEN 0
                      ELSE ToUint64(SumDifficulty(w.visited)) \div Len(w.visited) + 1]

Range(seq) == {seq[i] : i \in DOMAIN seq}

NewBlockCostNeverLowers(lastCost, secondsSinceLast) ==
    LET c0 == IF lastCost < MinBlockCost THEN MinBlockCost ELSE lastCost
    IN  IF secondsSinceLast < BlockTarget
        THEN (c0 + ToUint64(BlockTarget - secondsSinceLast)) % Two64
        ELSE c0

NewBlockCostNoFloor(lastCost, secondsSinceLast) ==
    IF secondsSinceLast < BlockTarget
    THEN (lastCost + ToUint64(BlockTarget - secondsSinceLast)) % Two64
    ELSE LET possibleDiff == ToUint64(secondsSinceLast - BlockTarget)
         IN  IF possibleDiff < lastCost - MinBlockCost
             THEN lastCost - possibleDiff ELSE MinBlockCost

\* The new block cost of vm.Recents.
NewBlockCost(lastCost, secondsSinceLast) ==
    LET c0 == IF lastCost < MinBlockCost THEN MinBlockCost ELSE lastCost
    IN  IF secondsSinceLast < BlockTarget
        THEN (c0 + ToUint64(BlockTarget - secondsSinceLast)) % Two64
        ELSE LET possibleDiff == ToUint64(secondsSinceLast - BlockTarget)
             IN  IF possibleDiff < c0 - MinBlockCost
                 THEN c0 - possibleDiff ELSE MinBlockCost

NewMinDifficultyNeverRaises(lastDifficulty, secondsSinceLast, recentTxs) ==
    LET d0 == IF lastDifficulty < MinDifficulty THEN MinDifficulty ELSE lastDifficulty
    IN  IF recentTxs >= TargetTransactions THEN d0
        ELSE LET elapsedWindows ==
                    (ToUint64(GoDiv(secondsSinceLast, LookbackWindow)) + 1) % Two64
             IN  IF elapsedWindows < d0 - MinDifficulty
                 THEN d0 - elapsedWindows ELSE MinDifficulty

\* The new min difficulty of vm.Recents.
NewMinDifficulty(lastDifficulty, secondsSinceLast, recentTxs) ==
    LET d0 == IF lastDifficulty < MinDifficulty THEN MinDifficulty ELSE lastDifficulty
    IN  IF recentTxs > TargetTransactions THEN (d0 + 1) % Two64
        ELSE IF recentTxs < TargetTransactions
        THEN LET elapsedWindows ==
                    (ToUint64(GoDiv(secondsSinceLast, LookbackWindow)) + 1) % Two64
             IN  IF elapsedWindows < d0 - MinDifficulty
                 THEN d0 - elapsedWindows ELSE MinDifficulty
        ELSE d0

RecentsForgetsTxs(R, currTime, lastBlock) ==
    LET w == readWindow(R, currTime, lastBlock, EmptyID)
        secondsSinceLast == currTime - blocks[lastBlock].Tmstmp
    IN  [panic          |-> w.panic,
         recentBlockIDs |-> Range(w.visited),
         recentTxIDs    |-> {},
         blockCost      |-> NewBlockCost(blocks[lastBlock].Cost, secondsSinceLast),
         minDifficulty  |-> NewMinDifficulty(blocks[lastBlock].Difficulty,
                                             secondsSinceLast, 0)]

\* vm.Recents(currTime, lastBlock)
Recents(R, currTime, lastBlock) ==
    LET w == readWindow(R, currTime, lastBlock, EmptyID)
        recentTxIDs == UNION {Range(blocks[b].Txs) : b \in Range(w.visited)}
        secondsSinceLast == currTime - blocks[lastBlock].Tmstmp
    IN  [panic          |-> w.panic,
         recentBlockIDs |-> Range(w.visited),
         recentTxIDs    |-> recentTxIDs,
         blockCost      |-> NewBlockCost(blocks[lastBlock].Cost, secondsSinceLast),
         minDifficulty  |-> NewMinDifficulty(blocks[lastBlock].Difficulty,
                                             secondsSinceLast,
                                             Cardinality(recentTxIDs))]

\* Transaction.Verify: proof of work and replay protection.
TxVerify(tx, recentBlockIDs, recentTxIDs, difficulty) ==
    /\ TxDifficulty(tx) >= difficulty
    /\ tx.blockID \in recentBlockIDs
    /\ tx \notin recentTxIDs

\* mempool.PopMin: the lowest difficulty, ties by id.
PopMin(pool) ==
    CHOOSE tx \in pool : \A o \in pool :
        \/ TxDifficulty(o) > TxDifficulty(tx)
        \/ (TxDifficulty(o) = TxDifficulty(tx) /\ TxOrd(o) <= TxOrd(tx))

PopMaxTakesLowest(pool) ==
    CHOOSE tx \in pool : \A o \in pool : TxDifficulty(o) >= TxDifficulty(tx)

\* mempool.PopMax: the highest difficulty, ties by id.
PopMax(pool) ==
    CHOOSE tx \in pool : \A o \in pool :
        \/ TxDifficulty(o) < TxDifficulty(tx)
        \/ (TxDifficulty(o) = TxDifficulty(tx) /\ TxOrd(o) >= TxOrd(tx))

\* mempool.Push: a full mempool drops its lowest entry for a better one.
Push(pool, tx) ==
    IF tx \in pool THEN pool
    ELSE IF Cardinality(pool) < MempoolSize THEN pool \cup {tx}
    ELSE IF TxDifficulty(tx) > TxDifficulty(PopMin(pool))
    THEN (pool \ {PopMin(pool)}) \cup {tx}
    ELSE pool

\* mempool.Prune(validBlockIDs)
Prune(pool, validBlockIDs) == {tx \in pool : tx.blockID \in validBlockIDs}

\* The selection loop of BuildBlock for a block of up to target
\* transactions: (what is left of the mempool, b.Txs).
RECURSIVE selectUpTo(_, _, _, _, _, _)
selectUpTo(target, pool, txs, difficulty, recentBlockIDs, recentTxIDs) ==
    IF ~(Len(txs) < target /\ Cardinality(pool) > 0)
    THEN [pool |-> pool, txs |-> txs]
    ELSE LET next == PopMax(pool)
         IN  IF TxDifficulty(next) < difficulty
             THEN [pool |-> pool, txs |-> txs]
             ELSE IF ~TxVerify(next, recentBlockIDs, recentTxIDs, difficulty)
             THEN selectUpTo(target, pool \ {next}, txs, difficulty,
                             recentBlockIDs, recentTxIDs)
             ELSE selectUpTo(target, pool \ {next}, Append(txs, next), difficulty,
                             recentBlockIDs, recentTxIDs)

\* The loop with chain.TargetTransactions.
selectTxs(pool, txs, difficulty, recentBlockIDs, recentTxIDs) ==
    selectUpTo(TargetTransactions, pool, txs, difficulty, recentBlockIDs,
               recentTxIDs)

\* The id of a block is the hash of its content.
BlockIDOf(content) ==
    IF \E id \in DOMAIN blocks : blocks[id] = content
    THEN CHOOSE id \in DOMAIN blocks : blocks[id] = content
    ELSE IF BlockIDs \subseteq DOMAIN blocks THEN EmptyID
    ELSE CHOOSE id \in BlockIDs \ DOMAIN blocks :
            \A o \in BlockIDs \ DOMAIN blocks : id <= o

\* What a peer may put in a block: up to TargetTransactions transactions.
RECURSIVE TxSeqs(_)
TxSeqs(k) ==
    IF k = 0 THEN {<<>>}
    ELSE TxSeqs(k - 1) \cup {Append(q, x) : q \in TxSeqs(k - 1), x \in Transactions}
PeerTxs == TxSeqs(TargetTransactions)

NoDuplicates(txs) == \A i, j \in DOMAIN txs : txs[i] = txs[j] => i = j

\* The checks of Block.Verify on a block whose parent is found.
BlockVerifyOK(content) ==
    /\ content.Prnt \in Retrievable
    /\ content.Tmstmp >= blocks[content.Prnt].Tmstmp
    /\ LET r == Recents(Retrievable, content.Tmstmp, content.Prnt)
       IN  /\ ~r.panic
           /\ content.Difficulty = r.minDifficulty
           /\ content.Cost = r.blockCost
           /\ Len(content.Txs) <= TargetTransactions
           /\ NoDuplicates(content.Txs)
           /\ \A i \in DOMAIN content.Txs :
                 TxVerify(content.Txs[i], r.recentBlockIDs, r.recentTxIDs,
                          content.Difficulty)

-----------------------------------------------------------------------------
(* The callbacks of chain.VM.                                              *)

\* vm.Verified(b)
Verified(b) ==
    /\ preferred' = IF blocks'[b].Prnt = preferred THEN b ELSE preferred
    /\ verifiedBlocks' = verifiedBlocks \cup {b}

RejectedKeepsBlock(b) ==
    /\ verifiedBlocks' = verifiedBlocks
    /\ UNCHANGED <<preferred, lastAccepted>>

\* vm.Rejected(b)
Rejected(b) ==
    /\ verifiedBlocks' = verifiedBlocks \ {b}
    /\ UNCHANGED <<preferred, lastAccepted>>

\* vm.Accepted(b)
Accepted(b) ==
    /\ lastAccepted' = b
    /\ verifiedBlocks' = verifiedBlocks \ {b}
    /\ UNCHANGED preferred

-----------------------------------------------------------------------------
(* The operations of the VM.                                               *)

Genesis(d, c) ==
    [Prnt |-> EmptyID, Tmstmp |-> 0, Difficulty |-> d, Cost |-> c, Txs |-> <<>>]

\* The genesis block may carry a difficulty and a cost below the minimum
\* (Recents raises them), equal to it or above it.
GenesisChoices ==
    {Genesis(MinDifficulty - 1, MinBlockCost - 1),
     Genesis(MinDifficulty, MinBlockCost),
     Genesis(MinDifficulty + 2, MinBlockCost + 2)}

\* The chain an earlier run accepted on genesis g: two blocks of one
\* transaction each, built in the second of genesis.
StoredChain(g) ==
    LET b2 == [Prnt |-> GenesisID, Tmstmp |-> 0,
               Difficulty |-> NewMinDifficulty(g.Difficulty, 0, 0),
               Cost |-> NewBlockCost(g.Cost, 0),
               Txs |-> <<[n |-> 1, blockID |-> GenesisID]>>]
        b3 == [Prnt |-> 2, Tmstmp |-> 0,
               Difficulty |-> NewMinDifficulty(b2.Difficulty, 0, 1),
               Cost |-> NewBlockCost(b2.Cost, 0),
               Txs |-> <<[n |-> 2, blockID |-> GenesisID]>>]
    IN  (GenesisID :> g) @@ (2 :> b2) @@ (3 :> b3)

EmptyStore == [last |-> EmptyID, blocks |-> {}, state |-> {}]

\* Before Initialize: the store is empty (first start), or holds what an
\* earlier run accepted (genesis alone, or genesis and two blocks).
InitVM ==
    /\ phase = "new"
    /\ \E g \in GenesisChoices :
          \/ /\ blocks = (GenesisID :> g)
             /\ st = (GenesisID :> "Processing")
             /\ vmdb = EmptyStore
          \/ /\ g.Difficulty = MinDifficulty
             /\ blocks = (GenesisID :> g)
             /\ st = (GenesisID :> "Accepted")
             /\ vmdb = [last |-> GenesisID, blocks |-> {GenesisID}, state |-> {GenesisID}]
          \/ /\ g.Difficulty = MinDifficulty
             /\ blocks = StoredChain(g)
             /\ st = [id \in DOMAIN StoredChain(g) |-> "Accepted"]
             /\ vmdb = [last |-> 3, blocks |-> DOMAIN StoredChain(g),
                        state |-> DOMAIN StoredChain(g)]
    /\ verifiedBlocks = {}
    /\ preferred = EmptyID
    /\ lastAccepted = EmptyID
    /\ mempool = {}
    /\ toEngine = 0
    /\ now = 0

InitializeForgetsStore ==
    /\ UNCHANGED <<regVars, lockVars, pureVars>>
    /\ phase = "new"
    /\ IF vmdb.last # EmptyID
       THEN /\ preferred' = vmdb.last
            /\ lastAccepted' = vmdb.last
            /\ UNCHANGED <<vmdb, st>>
       ELSE /\ st' = [st EXCEPT ![GenesisID] = "Accepted"]
            /\ UNCHANGED vmdb
            /\ preferred' = GenesisID
            /\ lastAccepted' = GenesisID
    /\ phase' = "running"
    /\ verifiedBlocks' = {}
    /\ mempool' = {}
    /\ UNCHANGED <<blocks, toEngine, now>>

\* vm.Initialize
Initialize ==
    /\ UNCHANGED <<regVars, lockVars, pureVars>>
    /\ phase = "new"
    /\ IF vmdb.last # EmptyID
       THEN /\ preferred' = vmdb.last
            /\ lastAccepted' = vmdb.last
            /\ UNCHANGED <<vmdb, st>>
       ELSE \* chain.InitializeBlock(genesisBytes, choices.Accepted, vm);
            \* chain.SetLastAccepted(vm.db, genesisBlk)
            /\ st' = [st EXCEPT ![GenesisID] = "Accepted"]
            /\ vmdb' = [last |-> GenesisID, blocks |-> {GenesisID},
                        state |-> {GenesisID}]
            /\ preferred' = GenesisID
            /\ lastAccepted' = GenesisID
    /\ phase' = "running"
    /\ verifiedBlocks' = {}
    /\ mempool' = {}
    /\ UNCHANGED <<blocks, toEngine, now>>

\* The clock.
Tick ==
    /\ UNCHANGED <<regVars, lockVars, pureVars>>
    /\ phase = "running"
    /\ now < MaxNow
    /\ now' = now + 1
    /\ UNCHANGED <<phase, blocks, st, verifiedBlocks, preferred, lastAccepted,
                   vmdb, mempool, toEngine>>

\* The length of a quiet period, in lookback windows.
IdleWindows == 10

\* A quiet period: nobody submits a transaction for IdleWindows *
\* LookbackWindow seconds, so the engine gets no PendingTxs message and asks
\* for no block meanwhile. It is the last passage of time of a run.
Idle ==
    /\ UNCHANGED <<regVars, lockVars, pureVars>>
    /\ phase = "running"
    /\ mempool = {}
    /\ now = MaxNow
    /\ now' = now + IdleWindows * LookbackWindow
    /\ UNCHANGED <<phase, blocks, st, verifiedBlocks, preferred, lastAccepted,
                   vmdb, mempool, toEngine>>

\* vm.notifyBlockReady: select { case vm.toEngine <- PendingTxs: default: }.
\* The select has a default case, so it never waits for room in the channel.
notifyWaitsForRoom(ch) == ch < ToEngineCap
notifyProceeds(ch) == TRUE
notifyBlockReady(ch) == IF ch < ToEngineCap THEN ch + 1 ELSE ch

\* vm.Submit(tx), with vm.notifyBlockReady
Submit ==
    /\ UNCHANGED <<regVars, lockVars, pureVars>>
    /\ phase = "running"
    /\ \E tx \in Transactions :
          /\ tx.blockID \in DOMAIN blocks
          /\ mempool' = Push(mempool, tx)
    /\ toEngine' = notifyBlockReady(toEngine)
    /\ UNCHANGED <<phase, blocks, st, verifiedBlocks, preferred, lastAccepted,
                   vmdb, now>>

\* The consensus engine takes a message from toEngine.
EngineReceive ==
    /\ UNCHANGED <<regVars, lockVars, pureVars>>
    /\ phase = "running"
    /\ toEngine > 0
    /\ toEngine' = toEngine - 1
    /\ UNCHANGED <<phase, blocks, st, verifiedBlocks, preferred, lastAccepted,
                   vmdb, mempool, now>>

\* The block the engine accepted last, by the blocks' own status.
IsAcceptedTip(id) ==
    /\ st[id] = "Accepted"
    /\ \A c \in DOMAIN blocks : blocks[c].Prnt = id => st[c] # "Accepted"

\* vm.SetPreference(id): the engine's preference is the tip of a chain of
\* blocks it is processing, or the last block it accepted when it processes
\* nothing on top of it.
SetPreference ==
    /\ UNCHANGED <<regVars, lockVars, pureVars>>
    /\ phase = "running"
    /\ \E id \in DOMAIN blocks :
          /\ st[id] = "Processing" \/ IsAcceptedTip(id)
          /\ \A c \in DOMAIN blocks : blocks[c].Prnt = id => st[c] # "Processing"
          /\ preferred' = id
    /\ UNCHANGED <<phase, blocks, st, verifiedBlocks, lastAccepted, vmdb,
                   mempool, toEngine, now>>

\* vm.BuildBlock
BuildBlock ==
    /\ UNCHANGED <<regVars, lockVars, pureVars>>
    /\ phase = "running"
    /\ IF preferred \notin Retrievable
       THEN \* couldn't get parent
            UNCHANGED vmVars
       ELSE LET r == Recents(Retrievable, now, preferred)
            IN  IF r.panic
                THEN /\ phase' = "crashed"
                     /\ UNCHANGED <<blocks, st, verifiedBlocks, preferred,
                                    lastAccepted, vmdb, mempool, toEngine, now>>
                ELSE LET sel == selectTxs(Prune(mempool, r.recentBlockIDs), <<>>,
                                          r.minDifficulty, r.recentBlockIDs,
                                          r.recentTxIDs)
                         b == [Prnt |-> preferred, Tmstmp |-> now,
                               Difficulty |-> r.minDifficulty,
                               Cost |-> r.blockCost, Txs |-> sel.txs]
                         id == BlockIDOf(b)
                     IN  /\ mempool' = sel.pool
                         /\ IF BlockVerifyOK(b)
                            THEN /\ id # EmptyID
                                 /\ blocks' = (id :> b) @@ blocks
                                 /\ st' = IF id \in DOMAIN st THEN st
                                          ELSE (id :> "Processing") @@ st
                                 /\ Verified(id)
                            ELSE UNCHANGED <<blocks, st, verifiedBlocks, preferred>>
                         /\ UNCHANGED <<phase, lastAccepted, vmdb, toEngine, now>>

\* vm.ParseBlock of a peer's block, then Block.Verify on it. The engine
\* verifies only blocks it has not decided.
BlockVerify ==
    /\ UNCHANGED <<regVars, lockVars, pureVars>>
    /\ phase = "running"
    /\ \E p \in Retrievable, t \in {now},
          txs \in PeerTxs :
          LET r == Recents(Retrievable, t, p)
              b == [Prnt |-> p, Tmstmp |-> t, Difficulty |-> r.minDifficulty,
                    Cost |-> r.blockCost, Txs |-> txs]
              id == BlockIDOf(b)
          IN  /\ id # EmptyID
              /\ id \in DOMAIN st => st[id] = "Processing"
              /\ BlockVerifyOK(b)
              /\ blocks' = (id :> b) @@ blocks
              /\ st' = (id :> "Processing") @@ st
              /\ Verified(id)
    /\ UNCHANGED <<phase, lastAccepted, vmdb, mempool, toEngine, now>>

\* Block.Accept: commits the block's snapshot, stores the block and the last
\* accepted id, then calls vm.Accepted. The engine accepts a verified block
\* on top of the last accepted one.
BlockAccept ==
    /\ UNCHANGED <<regVars, lockVars, pureVars>>
    /\ phase = "running"
    /\ \E b \in DOMAIN blocks :
          /\ st[b] = "Processing"
          /\ IsAcceptedTip(blocks[b].Prnt)
          /\ vmdb' = [last |-> b, blocks |-> vmdb.blocks \cup {b},
                      state |-> vmdb.state \cup {b}]
          /\ st' = [st EXCEPT ![b] = "Accepted"]
          /\ Accepted(b)
    /\ UNCHANGED <<phase, blocks, mempool, toEngine, now>>

\* Block.Reject, then vm.Rejected. The engine rejects a verified block once
\* a sibling is accepted or its parent is rejected.
BlockReject ==
    /\ UNCHANGED <<regVars, lockVars, pureVars>>
    /\ phase = "running"
    /\ \E b \in DOMAIN blocks :
          /\ st[b] = "Processing"
          /\ \/ st[blocks[b].Prnt] = "Rejected"
             \/ \E c \in DOMAIN blocks :
                   c # b /\ blocks[c].Prnt = blocks[b].Prnt /\ st[c] = "Accepted"
          /\ st' = [st EXCEPT ![b] = "Rejected"]
          /\ Rejected(b)
    /\ UNCHANGED <<phase, blocks, vmdb, mempool, toEngine, now>>

NextVM ==
    \/ Initialize
    \/ Tick
    \/ Submit
    \/ EngineReceive
    \/ SetPreference
    \/ BuildBlock
    \/ BlockVerify
    \/ BlockAccept
    \/ BlockReject

-----------------------------------------------------------------------------
(* BuildBlock on the store: the scratch snapshots.                         *)

\* Transactions popped from the mempool by one BuildBlock.
MaxCands == 2

\* versiondb: a write buffer over an underlying store. under is the store
\* below, view what a reader of the buffer sees.
versiondbNew(under) == [under |-> under, view |-> under]
\* Commit writes the buffer through: the store below becomes the view.
versiondbCommit(v) == v.view
\* Abort drops the buffer: the store below stays as it was.
versiondbAbortKeepsWrites(v) == v.view
versiondbAbort(v) == v.under

\* What a transaction that fails verification may have written to its
\* snapshot before it failed.
Scribble(d, tx, blockTime) ==
    PutPrefixInfo(d, tx.prefix,
        [owner |-> tx.sender, expiry |-> blockTime + ExpiryTime,
         units |-> prefixUnits(tx.prefix)],
        d.info[tx.prefix].expiry)

RegTxs == [kind : {"claim", "lifeline"}, prefix : Prefixes, sender : Senders]

RECURSIVE CandSeqs(_)
CandSeqs(k) ==
    IF k = 0 THEN {<<>>}
    ELSE CandSeqs(k - 1) \cup {Append(q, x) : q \in CandSeqs(k - 1), x \in RegTxs}

\* The loop of BuildBlock over the transactions popped from the mempool
\* (cands, in pop order), on tdb := versiondb.New(parentDB):
\*   ttdb := versiondb.New(tdb)
\*   if err := next.Verify(ttdb, ...); err != nil { ttdb.Abort(); continue }
\*   ttdb.Commit(); b.Txs = append(b.Txs, next)
\* tdb.view is what the next transaction reads, tdb.under the parent's store.
RECURSIVE buildOnSnapshot(_, _, _, _, _, _)
buildOnSnapshot(tdb, txs, failed, cands, blockTime, dirty) ==
    IF ~(Len(txs) < TargetTransactions /\ cands # <<>>)
    THEN [tdb |-> tdb, txs |-> txs, failed |-> failed, err |-> "nil"]
    ELSE LET next == Head(cands)
             ttdb == versiondbNew(tdb.view)
             r == Execute(ttdb.view, next, blockTime)
         IN  IF r.err = "panic"
             THEN [tdb |-> tdb, txs |-> txs, failed |-> failed, err |-> "panic"]
             ELSE IF r.err # "nil"
             THEN LET scratch == [ttdb EXCEPT !.view =
                                     IF dirty THEN Scribble(@, next, blockTime)
                                     ELSE r.db]
                  IN  buildOnSnapshot([tdb EXCEPT !.view = versiondbAbort(scratch)],
                                      txs, Append(failed, next), Tail(cands),
                                      blockTime, dirty)
             ELSE LET scratch == [ttdb EXCEPT !.view = r.db]
                  IN  buildOnSnapshot([tdb EXCEPT !.view = versiondbCommit(scratch)],
                                      Append(txs, next), failed, Tail(cands),
                                      blockTime, dirty)

\* vm.BuildBlock seen from the store: parentDB is the accepted state, tdb is
\* never committed, so the store is what lies under tdb when BuildBlock
\* returns. built records the call: the store before, the transactions
\* included and skipped, and the view of tdb at the end.
BuildOnStore ==
    /\ UNCHANGED <<vmVars, lockVars, pureVars>>
    /\ rpc = "tx"
    /\ driver = "block"
    /\ ~built.done
    /\ \E cands \in CandSeqs(MaxCands), t \in {prevTime, MaxTime},
          dirty \in BOOLEAN, verified \in BOOLEAN :
          LET r == buildOnSnapshot(versiondbNew(db), <<>>, <<>>, cands, t, dirty)
          IN  /\ db' = r.tdb.under
              /\ built' = [done |-> TRUE, before |-> db, blockTime |-> t,
                           txs |-> r.txs, failed |-> r.failed,
                           view |-> r.tdb.view, err |-> r.err,
                           dirty |-> dirty,
                           \* b.Verify() at the end of BuildBlock
                           returned |-> r.err = "nil" /\ verified]
              /\ rpc' = IF r.err = "panic" THEN "crashed" ELSE "built"
    /\ UNCHANGED <<driver, prevTime, nTx, res, nClaimed, limit, pruned>>

\* Blocks accepted before BuildBlock is called.
MaxStored == 1

NextBuild ==
    \/ nTx < MaxStored /\ BlockStep
    \/ BuildOnStore

-----------------------------------------------------------------------------
(* Threads and the mutex vm.l.                                             *)

\* The consensus engine calls the adapter from one thread; the RPC server
\* calls Submit, ValidBlockID and DifficultyEstimate from another.
Threads == {"engine", "rpc"}
NoThread == "none"

EngineCalls == {"BuildBlock", "SetPreference", "LastAccepted", "GetBlock",
                "Verified", "Accepted", "Rejected", "Receive"}
RpcCalls == {"Submit", "ValidBlockID", "DifficultyEstimate"}
CallsOf(t) == IF t = "engine" THEN EngineCalls ELSE RpcCalls

StepLock == [a |-> "lock", f |-> "l"]
StepUnlock == [a |-> "unlock", f |-> "l"]
StepRead(f) == [a |-> "read", f |-> f]
StepWrite(f) == [a |-> "write", f |-> f]

\* What each call does to vm.l and to the fields of the VM, in program order.
StepsOf(method) ==
    CASE method = "Submit" ->
            <<StepLock, StepWrite("mempool"), [a |-> "send", f |-> "toEngine"],
              StepUnlock>>
      [] method = "BuildBlock" ->
            \* getBlock(vm.preferred), Recents, mempool.Prune / PopMax, then
            \* b.Verify calling vm.Verified
            <<StepLock, StepRead("preferred"), StepRead("verifiedBlocks"),
              StepWrite("mempool"), StepRead("preferred"), StepWrite("preferred"),
              StepWrite("verifiedBlocks"), StepUnlock>>
      [] method = "SetPreference" -> <<StepWrite("preferred")>>
      [] method = "LastAccepted" -> <<StepRead("lastAccepted")>>
      [] method = "GetBlock" -> <<StepRead("verifiedBlocks")>>
      [] method = "ValidBlockID" ->
            <<StepRead("preferred"), StepRead("verifiedBlocks")>>
      [] method = "DifficultyEstimate" ->
            <<StepRead("preferred"), StepRead("verifiedBlocks")>>
      [] method = "Verified" ->
            <<StepRead("preferred"), StepWrite("preferred"),
              StepWrite("verifiedBlocks")>>
      [] method = "Accepted" ->
            <<StepWrite("lastAccepted"), StepWrite("verifiedBlocks")>>
      [] method = "Rejected" -> <<StepWrite("verifiedBlocks")>>
      [] OTHER -> <<[a |-> "recv", f |-> "toEngine"]>>

ThreadIdle == [call |-> "idle", at |-> 0]

LockIdle ==
    /\ thr = [t \in Threads |-> ThreadIdle]
    /\ mutex = NoThread

\* The step thread t takes next; none when it is in no call.
NextStepOf(t) ==
    IF thr[t].call = "idle" THEN [a |-> "none", f |-> ""]
    ELSE StepsOf(thr[t].call)[thr[t].at]

\* t has taken its step: it is at the next one, or back from the call.
Advance(t) ==
    thr' = [thr EXCEPT ![t] =
              IF @.at = Len(StepsOf(@.call)) THEN ThreadIdle
              ELSE [call |-> @.call, at |-> @.at + 1]]

lockFrame == <<phase, blocks, st, verifiedBlocks, preferred, lastAccepted, vmdb, now>>

\* A thread enters a call.
Call(t) ==
    /\ UNCHANGED <<regVars, pureVars>>
    /\ thr[t].call = "idle"
    /\ \E c \in CallsOf(t) : thr' = [thr EXCEPT ![t] = [call |-> c, at |-> 1]]
    /\ UNCHANGED <<lockFrame, mempool, toEngine, mutex>>

\* vm.l.Lock()
Lock(t) ==
    /\ UNCHANGED <<regVars, pureVars>>
    /\ NextStepOf(t).a = "lock"
    /\ mutex = NoThread
    /\ mutex' = t
    /\ Advance(t)
    /\ UNCHANGED <<lockFrame, mempool, toEngine>>

\* defer vm.l.Unlock()
Unlock(t) ==
    /\ UNCHANGED <<regVars, pureVars>>
    /\ NextStepOf(t).a = "unlock"
    /\ mutex' = NoThread
    /\ Advance(t)
    /\ UNCHANGED <<lockFrame, mempool, toEngine>>

\* A read or a write of a field of the VM. Submit's write pushes a
\* transaction, BuildBlock's takes transactions out of the mempool.
Access(t) ==
    /\ UNCHANGED <<regVars, pureVars>>
    /\ NextStepOf(t).a \in {"read", "write"}
    /\ IF NextStepOf(t) = StepWrite("mempool")
       THEN IF thr[t].call = "Submit"
            THEN \E tx \in Transactions : mempool' = Push(mempool, tx)
            ELSE \E left \in SUBSET mempool : mempool' = left
       ELSE UNCHANGED mempool
    /\ Advance(t)
    /\ UNCHANGED <<lockFrame, toEngine, mutex>>

\* vm.notifyBlockReady() in Submit
Notify(t) ==
    /\ UNCHANGED <<regVars, pureVars>>
    /\ NextStepOf(t).a = "send"
    /\ notifyProceeds(toEngine)
    /\ toEngine' = notifyBlockReady(toEngine)
    /\ Advance(t)
    /\ UNCHANGED <<lockFrame, mempool, mutex>>

\* The engine takes a message from toEngine.
Receive(t) ==
    /\ UNCHANGED <<regVars, pureVars>>
    /\ NextStepOf(t).a = "recv"
    /\ IF toEngine > 0 THEN toEngine' = toEngine - 1 ELSE UNCHANGED toEngine
    /\ Advance(t)
    /\ UNCHANGED <<lockFrame, mempool, mutex>>

NextLock ==
    \E t \in Threads :
        Call(t) \/ Lock(t) \/ Unlock(t) \/ Access(t) \/ Notify(t) \/ Receive(t)

-----------------------------------------------------------------------------
(* The functions of Recents on drawn arguments.                            *)

\* lastBlock.Cost and lastBlock.Difficulty range over 0..MaxLast, and
\* currTime - lastBlock.Tmstmp over -MaxElapsed..MaxElapsed.
MaxLast == 4
MaxElapsed == 5

NoCall == [fn |-> "none"]
PureIdle == call = NoCall

RecentsCalls ==
    [fn : {"cost"}, last : 0..MaxLast, elapsed : (-MaxElapsed)..MaxElapsed,
     recentTxs : {0}, done : {FALSE}, out : {0}]
    \cup
    [fn : {"difficulty"}, last : 0..MaxLast, elapsed : (-MaxElapsed)..MaxElapsed,
     recentTxs : 0..(TargetTransactions + 1), done : {FALSE}, out : {0}]

InitRecents == call \in RecentsCalls

\* Recents, "compute new block cost"
RecentsCost ==
    /\ UNCHANGED <<regVars, vmVars, lockVars>>
    /\ call.fn = "cost"
    /\ ~call.done
    /\ call' = [call EXCEPT !.done = TRUE,
                            !.out = NewBlockCost(call.last, call.elapsed)]

\* Recents, "compute new min difficulty"
RecentsDifficulty ==
    /\ UNCHANGED <<regVars, vmVars, lockVars>>
    /\ call.fn = "difficulty"
    /\ ~call.done
    /\ call' = [call EXCEPT !.done = TRUE,
                            !.out = NewMinDifficulty(call.last, call.elapsed,
                                                     call.recentTxs)]

NextRecents == RecentsCost \/ RecentsDifficulty

-----------------------------------------------------------------------------
(* readWindow on drawn chains.                                             *)

\* Chains of up to MaxChain blocks with timestamps in 0..MaxStamp.
MaxChain == 4
MaxStamp == 4

\* Timestamps of a chain, genesis first: a block is not older than its parent.
StampSeqs ==
    {ts \in UNION {[1..k -> 0..MaxStamp] : k \in 1..MaxChain} :
        \A i \in 1..(Len(ts) - 1) : ts[i] <= ts[i + 1]}

\* The chain with these timestamps: block i + 1 is the child of block i.
ChainOf(ts) ==
    [i \in 1..Len(ts) |->
        [Prnt |-> IF i = GenesisID THEN EmptyID ELSE i - 1, Tmstmp |-> ts[i],
         Difficulty |-> MinDifficulty, Cost |-> MinBlockCost, Txs |-> <<>>]]

\* readWindow(currTime, lastID, f) with f returning false at stopAt, on a VM
\* whose getBlock finds the blocks of R: every block of the chain, or every
\* block but one.
WindowCalls(chain) ==
    [fn : {"readWindow"}, lastID : DOMAIN chain, currTime : 0..MaxStamp,
     stopAt : {EmptyID} \cup DOMAIN chain,
     R : {DOMAIN chain} \cup {DOMAIN chain \ {x} : x \in DOMAIN chain},
     done : {FALSE}, visited : {<<>>}, panic : {FALSE}]

InitWindow ==
    /\ \E ts \in StampSeqs :
          /\ blocks = ChainOf(ts)
          /\ call \in WindowCalls(ChainOf(ts))
    /\ phase = "running"
    /\ st = [i \in DOMAIN blocks |-> "Accepted"]
    /\ verifiedBlocks = {}
    /\ preferred = GenesisID
    /\ lastAccepted = GenesisID
    /\ vmdb = EmptyStore
    /\ mempool = {}
    /\ toEngine = 0
    /\ now = 0

\* vm.readWindow(currTime, lastID, f)
WindowWalk ==
    /\ UNCHANGED <<regVars, vmVars, lockVars>>
    /\ call.fn = "readWindow"
    /\ ~call.done
    /\ LET r == readWindow(call.R, call.currTime, call.lastID, call.stopAt)
       IN  call' = [call EXCEPT !.done = TRUE, !.visited = r.visited,
                                !.panic = r.panic]

NextWindow == WindowWalk

-----------------------------------------------------------------------------
(* The selection loop of BuildBlock on drawn mempools.                     *)

\* The largest block size the loop is applied with.
MaxTarget == 2

\* The mempool when BuildBlock is called, the block's difficulty and the
\* window Recents returned; the loop fills a block of up to target
\* transactions.
SelectCalls ==
    [fn : {"select"},
     target : 1..MaxTarget,
     pool : {q \in SUBSET Transactions : Cardinality(q) <= MempoolSize},
     difficulty : MinDifficulty..(MinDifficulty + MaxTx),
     recentBlockIDs : SUBSET Anchors,
     recentTxIDs : SUBSET Transactions,
     done : {FALSE}, txs : {<<>>}, left : {{}}]

InitSelect == call \in SelectCalls

\* BuildBlock: vm.mempool.Prune(recentBlockIDs), then the loop.
SelectStep ==
    /\ UNCHANGED <<regVars, vmVars, lockVars>>
    /\ call.fn = "select"
    /\ ~call.done
    /\ LET sel == selectUpTo(call.target, Prune(call.pool, call.recentBlockIDs),
                             <<>>, call.difficulty, call.recentBlockIDs,
                             call.recentTxIDs)
       IN  call' = [call EXCEPT !.done = TRUE, !.txs = sel.txs, !.left = sel.pool]

NextSelect == SelectStep

-----------------------------------------------------------------------------
(* The specifications.                                                     *)

vars == <<regVars, vmVars, lockVars, pureVars>>

\* The registry alone: the VM is not started.
RegIdle ==
    /\ db = EmptyDB
    /\ driver = "test"
    /\ rpc = "done"
    /\ prevTime = 0
    /\ nTx = 0
    /\ res = NoRes
    /\ nClaimed = 0
    /\ limit = 0
    /\ pruned = 0
    /\ built = NoBuilt

VMIdle ==
    /\ phase = "new"
    /\ blocks = (GenesisID :> Genesis(MinDifficulty, MinBlockCost))
    /\ st = (GenesisID :> "Processing")
    /\ verifiedBlocks = {}
    /\ preferred = EmptyID
    /\ lastAccepted = EmptyID
    /\ vmdb = EmptyStore
    /\ mempool = {}
    /\ toEngine = 0
    /\ now = 0

InitSpecReg == InitReg /\ VMIdle /\ LockIdle /\ PureIdle

SpecReg == InitSpecReg /\ [][NextReg]_vars

\* Blocks accepted on the store, then one BuildBlock.
InitSpecBuild == InitReg /\ driver = "block" /\ VMIdle /\ LockIdle /\ PureIdle

SpecBuild == InitSpecBuild /\ [][NextBuild]_vars

\* The calls of two threads, step by step.
InitSpecLock == RegIdle /\ VMIdle /\ LockIdle /\ PureIdle

SpecLock == InitSpecLock /\ [][NextLock]_vars

\* A thread in a call takes its next step unless it waits for vm.l, and a
\* thread waiting for vm.l gets it: sync.Mutex hands a starving waiter the
\* mutex. Nothing makes a thread enter a call, or a message leave toEngine.
FairLock ==
    \A t \in Threads :
        /\ WF_vars(Unlock(t) \/ Access(t) \/ Notify(t) \/ Receive(t))
        /\ SF_vars(Lock(t))

SpecLockFair == SpecLock /\ FairLock

\* The cost and difficulty computations of Recents, applied once.
InitSpecRecents == InitRecents /\ RegIdle /\ VMIdle /\ LockIdle

SpecRecents == InitSpecRecents /\ [][NextRecents]_vars

\* readWindow, applied once to a chain.
InitSpecWindow == InitWindow /\ RegIdle /\ LockIdle

SpecWindow == InitSpecWindow /\ [][NextWindow]_vars

\* The selection loop of BuildBlock, applied once to a mempool.
InitSpecSelect == InitSelect /\ RegIdle /\ VMIdle /\ LockIdle

SpecSelect == InitSpecSelect /\ [][NextSelect]_vars

InitSpecVM == InitVM /\ RegIdle /\ LockIdle /\ PureIdle

SpecVM == InitSpecVM /\ [][NextVM]_vars

\* The VM when the engine never calls SetPreference.
NextNoPreference ==
    \/ Initialize
    \/ Tick
    \/ Submit
    \/ EngineReceive
    \/ BuildBlock
    \/ BlockVerify
    \/ BlockAccept
    \/ BlockReject

SpecNoPreference == InitSpecVM /\ [][NextNoPreference]_vars

\* The VM with a quiet period that closes the run: nothing is modelled past
\* the clock's bound.
NextIdle ==
    \/ now <= MaxNow /\ Initialize
    \/ now <= MaxNow /\ Tick
    \/ now <= MaxNow /\ Submit
    \/ now <= MaxNow /\ EngineReceive
    \/ now <= MaxNow /\ SetPreference
    \/ now <= MaxNow /\ BuildBlock
    \/ now <= MaxNow /\ BlockVerify
    \/ now <= MaxNow /\ BlockAccept
    \/ now <= MaxNow /\ BlockReject
    \/ Idle

SpecIdle == InitSpecVM /\ [][NextIdle]_vars

-----------------------------------------------------------------------------
(* Properties of the prefix registry (checked under SpecReg).              *)

IndexOf(p) == {k \in db.expiry : k[2] = p}

C6_ClaimRoundTrip ==
    (res.kind = "claim" /\ res.err = "nil")
        => /\ res.after.owner = res.sender
           /\ res.after.expiry = res.blockTime + ExpiryTime
           /\ res.after.units = prefixUnits(res.prefix)

\* A claim by another sender over an entry that expired and was not swept.
C6_Witness ==
    /\ res.kind = "claim"
    /\ res.err = "nil"
    /\ res.before # NoInfo
    /\ res.before.owner # res.sender
    /\ res.after.owner = res.sender
    /\ res.after.expiry = res.blockTime + ExpiryTime

C8_LifelineExpiryMonotone ==
    (res.kind = "lifeline" /\ res.before # NoInfo)
        => /\ res.after # NoInfo
           /\ res.after.expiry >= res.before.expiry
           /\ res.after.owner = res.before.owner
           /\ res.after.units = res.before.units

C8_Witness ==
    /\ res.kind = "lifeline"
    /\ res.err = "nil"
    /\ res.before # NoInfo
    /\ res.sender # res.before.owner
    /\ res.after.expiry > res.before.expiry
    /\ nTx >= 3

\* C19: a LifelineTx on a prefix that has an entry completes and adds
\* ExpiryTime / units / prefixUnits(prefix) / penalty to the entry's expiry,
\* with penalty = max(1, prefixUnits(prefix) / PrefixRenewalDiscount); the
\* expiry index follows.
C19_LifelineAddsWithPenaltyFloor ==
    (res.kind = "lifeline" /\ res.before # NoInfo) =>
        LET units == prefixUnits(res.prefix)
            penalty == IF units \div PrefixRenewalDiscount >= 1
                       THEN units \div PrefixRenewalDiscount ELSE 1
        IN  /\ res.err = "nil"
            /\ res.after.expiry =
                  res.before.expiry
                  + (((ExpiryTime \div res.before.units) \div units) \div penalty)

-----------------------------------------------------------------------------
(* Properties of the VM, under SpecVM.                                     *)

\* The blocks readWindow visits for block b: from b's parent, at b's
\* timestamp, over every block known.
WindowOf(b) ==
    Range(readWindow(DOMAIN blocks, blocks[b].Tmstmp, blocks[b].Prnt, EmptyID).visited)

WindowTxIDs(b) == UNION {Range(blocks[a].Txs) : a \in WindowOf(b)}

NonGenesis == {b \in DOMAIN blocks : blocks[b].Prnt # EmptyID}

\* Blocks whose parent is itself a block of the chain past genesis, so that
\* the parent's header values came out of Recents too.
ChainPairs == {b \in NonGenesis : blocks[b].Prnt \in NonGenesis}

C3_LastAcceptedCommitted ==
    phase # "new" =>
        /\ lastAccepted = vmdb.last
        /\ lastAccepted \in vmdb.blocks
        /\ lastAccepted \in vmdb.state
        /\ st[lastAccepted] = "Accepted"

C3_Witness ==
    /\ phase = "running"
    /\ lastAccepted \in BlockIDs
    /\ lastAccepted \in vmdb.blocks \cap vmdb.state
    /\ blocks[lastAccepted].Prnt \in BlockIDs

\* C4: no block that passed verification or came out of BuildBlock holds a
\* transaction that a block of its lookback window holds.
C4_NoReplayInWindow ==
    \A b \in NonGenesis \cap BlockIDs :
        Range(blocks[b].Txs) \cap WindowTxIDs(b) = {}

C4_Witness ==
    \E b \in NonGenesis \cap BlockIDs :
        /\ blocks[b].Txs # <<>>
        /\ WindowTxIDs(b) # {}
        /\ blocks[b].Prnt \in BlockIDs
        /\ blocks[blocks[b].Prnt].Txs # <<>>

\* C9: for a block b of the chain and its parent p, both past genesis: if
\* b's lookback window holds fewer than TargetTransactions tx ids, b's
\* difficulty is at least MinDifficulty, at most p's, and below p's when p's
\* is above MinDifficulty (so a run of such blocks reaches MinDifficulty in
\* at most p.Difficulty - MinDifficulty blocks); if the window holds more
\* than TargetTransactions tx ids, b's difficulty is p's plus one.
C9_DifficultyControl ==
    \A b \in ChainPairs \cap BlockIDs :
        LET p == blocks[blocks[b].Prnt]
            n == Cardinality(WindowTxIDs(b))
        IN  /\ n < TargetTransactions =>
                /\ blocks[b].Difficulty >= MinDifficulty
                /\ blocks[b].Difficulty <= p.Difficulty
                /\ p.Difficulty > MinDifficulty => blocks[b].Difficulty < p.Difficulty
            /\ n > TargetTransactions => blocks[b].Difficulty = p.Difficulty + 1

C9_Witness ==
    /\ \E b \in ChainPairs \cap BlockIDs :
          /\ Cardinality(WindowTxIDs(b)) > TargetTransactions
          /\ blocks[b].Difficulty = blocks[blocks[b].Prnt].Difficulty + 1
    /\ \E b \in ChainPairs \cap BlockIDs :
          /\ Cardinality(WindowTxIDs(b)) < TargetTransactions
          /\ blocks[blocks[b].Prnt].Difficulty > MinDifficulty
          /\ blocks[b].Difficulty = MinDifficulty

\* C10: for a block b of the chain and its parent p, both past genesis: if b
\* comes more than BlockTarget seconds after p, b's cost is at least
\* MinBlockCost, below p's when p's is above MinBlockCost and MinBlockCost
\* when p's is MinBlockCost; if b comes less than BlockTarget seconds after
\* p, b's cost is p's plus BlockTarget minus the seconds elapsed.
C10_BlockCostControl ==
    \A b \in ChainPairs \cap BlockIDs :
        LET p == blocks[blocks[b].Prnt]
            elapsed == blocks[b].Tmstmp - p.Tmstmp
        IN  /\ elapsed > BlockTarget =>
                /\ blocks[b].Cost >= MinBlockCost
                /\ p.Cost > MinBlockCost => blocks[b].Cost < p.Cost
                /\ p.Cost = MinBlockCost => blocks[b].Cost = MinBlockCost
            /\ elapsed < BlockTarget =>
                blocks[b].Cost = p.Cost + (BlockTarget - elapsed)

C10_Witness ==
    /\ \E b \in ChainPairs \cap BlockIDs :
          /\ blocks[b].Tmstmp - blocks[blocks[b].Prnt].Tmstmp > BlockTarget
          /\ blocks[b].Cost < blocks[blocks[b].Prnt].Cost
          /\ blocks[b].Cost > MinBlockCost
    /\ \E b \in ChainPairs \cap BlockIDs :
          /\ blocks[b].Tmstmp - blocks[blocks[b].Prnt].Tmstmp < BlockTarget
          /\ blocks[b].Cost = blocks[blocks[b].Prnt].Cost + BlockTarget

-----------------------------------------------------------------------------
(* Properties of the difficulty estimate (checked under SpecIdle).         *)

\* C11: on a chain whose genesis has MinDifficulty, once the mempool has
\* stayed empty for IdleWindows * LookbackWindow seconds, DifficultyEstimate()
\* is MinDifficulty + 1, whatever the difficulty of the preferred block.
C11_IdleEstimateIsFloor ==
    [][(/\ blocks[GenesisID].Difficulty = MinDifficulty
        /\ mempool = {} /\ mempool' = {}
        /\ now' >= now + IdleWindows * LookbackWindow
        /\ ~DifficultyEstimate.panic')
       => DifficultyEstimate.estimate' = MinDifficulty + 1]_vars

-----------------------------------------------------------------------------
(* Properties of BuildBlock on the store (checked under SpecBuild).        *)

\* The store after the included transactions alone, executed in order.
RECURSIVE ExecuteAll(_, _, _)
ExecuteAll(d, txs, blockTime) ==
    IF txs = <<>> THEN d
    ELSE ExecuteAll(Execute(d, Head(txs), blockTime).db, Tail(txs), blockTime)

\* C12: BuildBlock leaves the store as it found it, whether it returns a
\* block, skips transactions that fail verification or fails the block's
\* own verification; and the snapshot the next transaction reads holds the
\* writes of the included transactions only, none of a skipped one.
C12_BuildLeavesStore ==
    built.done =>
        /\ db = built.before
        /\ built.err = "nil" =>
              built.view = ExecuteAll(built.before, built.txs, built.blockTime)

\* A transaction was skipped after writing to its snapshot, a later one on
\* the same prefix was included, and the block then failed its own
\* verification.
C12_Witness ==
    /\ built.done
    /\ built.dirty
    /\ built.err = "nil"
    /\ ~built.returned
    /\ built.failed # <<>>
    /\ built.txs # <<>>
    /\ built.failed[1].prefix = built.txs[1].prefix
    /\ Scribble(built.before, built.failed[1], built.blockTime) # built.before
    /\ built.view # built.before
    /\ db = built.before

-----------------------------------------------------------------------------
(* Properties of the threads and the mutex (checked under SpecLock and     *)
(* SpecLockFair).                                                          *)

\* C13: two threads are never both about to access the same one of
\* preferred, lastAccepted, verifiedBlocks and mempool with one of the two
\* accesses a write: every such access is made by the holder of vm.l.
C13_NoConcurrentAccess ==
    \A t, u \in Threads :
        (/\ t # u
         /\ NextStepOf(t).a \in {"read", "write"}
         /\ NextStepOf(u).a \in {"read", "write"}
         /\ NextStepOf(t).f = NextStepOf(u).f)
        => /\ NextStepOf(t).a = "read"
           /\ NextStepOf(u).a = "read"

\* C14: a thread that enters Submit comes back from it, whatever toEngine
\* holds, and no longer holds vm.l then; the notification of Submit is made
\* after the push, under vm.l and with the mempool non-empty, and puts a
\* PendingTxs message in toEngine when there is room and drops it when there
\* is none.
C14_SubmitCompletes ==
    /\ \A t \in Threads : (thr[t].call = "Submit") ~> (thr[t].call = "idle")
    /\ [](\A t \in Threads : thr[t].call = "idle" => mutex # t)
    /\ [][\A t \in Threads :
            (NextStepOf(t).a = "send" /\ thr'[t] # thr[t])
            => /\ mutex = t
               /\ mempool # {}
               /\ toEngine' = IF toEngine < ToEngineCap THEN toEngine + 1
                              ELSE toEngine]_vars

\* Submit holds vm.l and is about to notify while toEngine is full and the
\* engine, inside BuildBlock, waits for vm.l.
C14_Witness ==
    /\ thr["rpc"].call = "Submit"
    /\ NextStepOf("rpc").a = "send"
    /\ mutex = "rpc"
    /\ toEngine = ToEngineCap
    /\ thr["engine"].call = "BuildBlock"
    /\ NextStepOf("engine").a = "lock"

-----------------------------------------------------------------------------
(* Properties of the cost and difficulty computations (checked under       *)
(* SpecRecents).                                                           *)

Max(a, b) == IF a >= b THEN a ELSE b

\* C15 as stated: the new cost is lastCost + (BlockTarget - elapsed) when
\* elapsed < BlockTarget and max(MinBlockCost, lastCost - (elapsed -
\* BlockTarget)) otherwise, for a lastCost below MinBlockCost too, and is
\* never below MinBlockCost.
C15_CostAsStated ==
    (call.fn = "cost" /\ call.done) =>
        /\ call.out = IF call.elapsed < BlockTarget
                      THEN call.last + (BlockTarget - call.elapsed)
                      ELSE Max(MinBlockCost, call.last - (call.elapsed - BlockTarget))
        /\ call.out >= MinBlockCost

\* C15: with floored = max(lastCost, MinBlockCost), the new cost is floored +
\* (BlockTarget - elapsed) when elapsed < BlockTarget and max(MinBlockCost,
\* lastCost - (elapsed - BlockTarget)) otherwise; it is never below
\* MinBlockCost and, when elapsed >= BlockTarget, never above floored (no
\* unsigned subtraction wraps).
C15_CostFromFlooredLast ==
    (call.fn = "cost" /\ call.done) =>
        LET floored == Max(call.last, MinBlockCost)
        IN  /\ call.out = IF call.elapsed < BlockTarget
                          THEN floored + (BlockTarget - call.elapsed)
                          ELSE Max(MinBlockCost,
                                   call.last - (call.elapsed - BlockTarget))
            /\ call.out >= MinBlockCost
            /\ call.elapsed >= BlockTarget => call.out <= floored

\* The cost after a genesis whose cost is below MinBlockCost, built less than
\* BlockTarget seconds after it.
C15_Witness ==
    /\ call.fn = "cost"
    /\ call.done
    /\ call.last < MinBlockCost
    /\ call.elapsed < BlockTarget
    /\ call.out = MinBlockCost + (BlockTarget - call.elapsed)
    /\ call.out # call.last + (BlockTarget - call.elapsed)

\* C16: for a lastDiff at or above MinDifficulty and n recent transactions,
\* the new difficulty is lastDiff + 1 when n > TargetTransactions,
\* max(MinDifficulty, lastDiff - (elapsed / LookbackWindow + 1)) when n <
\* TargetTransactions and lastDiff when n = TargetTransactions, for a
\* negative elapsed too (the division truncates toward zero, as Go's does).
C16_DifficultyAsStated ==
    (call.fn = "difficulty" /\ call.done /\ call.last >= MinDifficulty) =>
        call.out =
            IF call.recentTxs > TargetTransactions THEN call.last + 1
            ELSE IF call.recentTxs < TargetTransactions
            THEN Max(MinDifficulty,
                     call.last - (GoDiv(call.elapsed, LookbackWindow) + 1))
            ELSE call.last

-----------------------------------------------------------------------------
(* Properties of readWindow (checked under SpecWindow).                    *)

\* The start block and its ancestors, the start block first.
PathFrom(lastID) == [i \in 1..lastID |-> lastID - i + 1]

\* The walk ends with the i-th block of the path: visit returns false on it,
\* it is genesis, or its parent is outside the window.
EndsWith(path, i, currTime, stopAt) ==
    \/ path[i] = stopAt
    \/ i = Len(path)
    \/ currTime - blocks[path[i + 1]].Tmstmp > LookbackWindow

ExpectedWindow(lastID, currTime, stopAt) ==
    LET path == PathFrom(lastID)
        last == CHOOSE i \in 1..Len(path) :
                    /\ EndsWith(path, i, currTime, stopAt)
                    /\ \A j \in 1..(i - 1) : ~EndsWith(path, j, currTime, stopAt)
    IN  SubSeq(path, 1, last)

\* C17: when getBlock finds the start block and its ancestors, readWindow
\* returns without a panic after calling visit on the start block, however
\* old, and then on each ancestor in turn while the ancestor's timestamp is
\* within LookbackWindow of currTime, ending with the block on which visit
\* returns false, with genesis, or before the first ancestor outside the
\* window; it visits at least one block.
C17_WindowVisits ==
    (/\ call.fn = "readWindow"
     /\ call.done
     /\ \A i \in 1..call.lastID : i \in call.R)
    => /\ ~call.panic
       /\ call.visited = ExpectedWindow(call.lastID, call.currTime, call.stopAt)
       /\ Len(call.visited) >= 1
       /\ call.visited[1] = call.lastID

\* A start block older than the window is visited, alone, although it is
\* neither genesis nor the block visit stops at.
C17_Witness ==
    /\ call.fn = "readWindow"
    /\ call.done
    /\ ~call.panic
    /\ call.currTime - blocks[call.lastID].Tmstmp > LookbackWindow
    /\ call.lastID # GenesisID
    /\ call.stopAt # call.lastID
    /\ call.visited = <<call.lastID>>

-----------------------------------------------------------------------------
(* Properties of the selection loop (checked under SpecSelect).            *)

\* C18: the block holds at most target transactions, each of a difficulty
\* at least the block's, in non-increasing order of difficulty; when the
\* loop meets a pending transaction below the block's difficulty, that
\* transaction is in the mempool afterwards; and every transaction of the
\* mempool before is in the block, still in the mempool, pruned for a
\* blockID outside the window, or dropped for failing verification, the
\* block and the mempool sharing none.
C18_SelectionOrdered ==
    (call.fn = "select" /\ call.done) =>
        LET pending == Prune(call.pool, call.recentBlockIDs)
            inBlock == Range(call.txs)
        IN  /\ Len(call.txs) <= call.target
            /\ \A i \in DOMAIN call.txs :
                  TxDifficulty(call.txs[i]) >= call.difficulty
            /\ \A i, j \in DOMAIN call.txs :
                  i < j => TxDifficulty(call.txs[i]) >= TxDifficulty(call.txs[j])
            /\ NoDuplicates(call.txs)
            /\ (pending # {} /\ \A tx \in pending : TxDifficulty(tx) < call.difficulty)
               => (call.txs = <<>> /\ call.left = pending)
            /\ \A tx \in call.left :
                  TxDifficulty(tx) < call.difficulty \/ Len(call.txs) = call.target
            /\ inBlock \cap call.left = {}
            /\ \A tx \in call.pool :
                  \/ tx \in inBlock
                  \/ tx \in call.left
                  \/ tx.blockID \notin call.recentBlockIDs
                  \/ ~TxVerify(tx, call.recentBlockIDs, call.recentTxIDs,
                               call.difficulty)
            /\ inBlock \cup call.left \subseteq call.pool

\* A block of two transactions of different difficulties.
C18_Witness ==
    /\ call.fn = "select"
    /\ call.done
    /\ Len(call.txs) = 2
    /\ TxDifficulty(call.txs[1]) > TxDifficulty(call.txs[2])
    /\ TxDifficulty(call.txs[2]) >= call.difficulty

-----------------------------------------------------------------------------
(* Properties of the preferred block (checked under SpecNoPreference).     *)

\* C20: after Initialize and any sequence of Verified, Accepted, Rejected
\* and BuildBlock calls without a SetPreference, getBlock finds the
\* preferred block, so BuildBlock finds its parent and neither ValidBlockID
\* nor DifficultyEstimate panics in readWindow, and no call has panicked.
C20_PreferredRetrievable ==
    /\ phase # "crashed"
    /\ phase = "running" =>
          /\ preferred \in Retrievable
          /\ ~ValidBlockID(GenesisID).panic
          /\ ~DifficultyEstimate.panic

=============================================================================
